---- MODULE Spec2Model ----
(***************************************************************************)
(* Model of src/fishing_log_app.py: the outing / catch log kept in the     *)
(* session state, the LOCATIONS registry, the USGS gage fetch and the      *)
(* depth estimator.  One action per script run triggered by a widget.      *)
(*                                                                         *)
(* Units.  Every float of the program (degrees, feet) is kept as an        *)
(* integer number of ten-thousandths, so that the arithmetic of            *)
(* estimate_depth_from_combined_sources is exact on the modelled inputs.   *)
(* Texts typed into text inputs are sequences of one-character strings.    *)
(***************************************************************************)
EXTENDS Integers, Sequences, FiniteSets, TLC

VARIABLES
    heap,                 \* the Outing objects, by object id
    past_outings,         \* st.session_state['past_outings']: object ids
    current_outing,       \* st.session_state['current_outing']: id or None
    LOCATIONS,            \* the registry
    last_clicked_coords,  \* st.session_state['last_clicked_coords']
    gage_depth,           \* the gage reading of this run's estimate
    estimated_depth,      \* the estimate of this run
    menu, button,         \* the page and the button of this run
    messages,             \* what this run showed with st.success/warning/...
    request,              \* the upstream response of this run (0: no request)
    form                  \* the location form of this run and the registry
                          \* it found

vars == <<heap, past_outings, current_outing, LOCATIONS,
          last_clicked_coords, gage_depth, estimated_depth,
          menu, button, messages, request, form>>

\* Python's None, for references (object ids start at 1).
None == 0

\* A value that stands for "not computed yet" in the numeric locals.
NoValue == -1

(***************************************************************************)
(* Bounds of the model.                                                    *)
(***************************************************************************)
MaxOutings == 2
MaxCatches == 2

(***************************************************************************)
(* Text handling: str.strip, str.split(","), str.splitlines, float.        *)
(***************************************************************************)
Digits == {"0", "1", "2", "3", "4", "5", "6", "7", "8", "9"}

DigitVal(c) ==
    CASE c = "0" -> 0 [] c = "1" -> 1 [] c = "2" -> 2 [] c = "3" -> 3
      [] c = "4" -> 4 [] c = "5" -> 5 [] c = "6" -> 6 [] c = "7" -> 7
      [] c = "8" -> 8 [] c = "9" -> 9

RECURSIVE LStrip(_)
LStrip(s) == IF s # <<>> /\ Head(s) = " " THEN LStrip(Tail(s)) ELSE s

RECURSIVE RStrip(_)
RStrip(s) ==
    IF s # <<>> /\ s[Len(s)] = " " THEN RStrip(SubSeq(s, 1, Len(s) - 1)) ELSE s

Strip(s) == RStrip(LStrip(s))

\* s.split(sep): always at least one field, empty fields are kept.
RECURSIVE SplitOn(_, _, _)
SplitOn(s, sep, cur) ==
    IF s = <<>> THEN <<cur>>
    ELSE IF Head(s) = sep THEN <<cur>> \o SplitOn(Tail(s), sep, <<>>)
    ELSE SplitOn(Tail(s), sep, Append(cur, Head(s)))

Split(s, sep) == SplitOn(s, sep, <<>>)

\* s.splitlines(): no trailing empty line, "" gives [].
SplitLines(s) ==
    IF s = <<>> THEN <<>>
    ELSE LET parts == Split(s, "\n")
         IN  IF parts[Len(parts)] = <<>>
             THEN SubSeq(parts, 1, Len(parts) - 1) ELSE parts

Contains(s, c) == \E i \in 1..Len(s) : s[i] = c

RECURSIVE DigitsValue(_)
DigitsValue(s) ==
    IF s = <<>> THEN 0
    ELSE 10 * DigitsValue(SubSeq(s, 1, Len(s) - 1)) + DigitVal(s[Len(s)])

AllDigits(s) == \A i \in 1..Len(s) : s[i] \in Digits

\* float(s) on decimal literals: optional surrounding blanks, optional sign,
\* digits with at most one point and at least one digit.
FloatBody(s) ==
    LET t == Strip(s)
    IN  IF t # <<>> /\ Head(t) \in {"-", "+"} THEN Tail(t) ELSE t

FloatParts(s) == Split(FloatBody(s), ".")

IsFloat(s) ==
    LET p == FloatParts(s)
    IN  /\ Len(p) \in {1, 2}
        /\ \A i \in 1..Len(p) : AllDigits(p[i])
        /\ \E i \in 1..Len(p) : p[i] # <<>>

\* Fraction digits scaled to ten-thousandths (the inputs have at most four).
FracValue(f) ==
    CASE Len(f) = 0 -> 0
      [] Len(f) = 1 -> 1000 * DigitsValue(f)
      [] Len(f) = 2 -> 100 * DigitsValue(f)
      [] Len(f) = 3 -> 10 * DigitsValue(f)
      [] OTHER      -> DigitsValue(SubSeq(f, 1, 4))

\* The value of float(s) in ten-thousandths, for s with IsFloat(s).
FloatValue(s) ==
    LET t   == Strip(s)
        p   == FloatParts(s)
        mag == 10000 * DigitsValue(p[1])
               + (IF Len(p) = 2 THEN FracValue(p[2]) ELSE 0)
    IN  IF t # <<>> /\ Head(t) = "-" THEN 0 - mag ELSE mag

(***************************************************************************)
(* The registry: a Python dict, kept as the sequence of its items in       *)
(* insertion order.                                                        *)
(***************************************************************************)
KeySet(d) == {d[i].name : i \in 1..Len(d)}

\* d.pop(k) for a key that is present.
DictPop(d, k) == SelectSeq(d, LAMBDA e : e.name # k)

\* A store that never looks for an existing key and always adds an item.
DictSet_AlwaysAppend(d, k, v) ==
    Append(d, [name |-> k, coordinates |-> v.coordinates,
               sub_locations |-> v.sub_locations, parking |-> v.parking])

\* d[k] = v: an existing key keeps its position, a new key goes last.
DictSet(d, k, v) ==
    LET item == [name |-> k, coordinates |-> v.coordinates,
                 sub_locations |-> v.sub_locations, parking |-> v.parking]
    IN  IF k \in KeySet(d)
        THEN [i \in 1..Len(d) |-> IF d[i].name = k THEN item ELSE d[i]]
        ELSE Append(d, item)

\* What st.selectbox returns for an empty option list.
NoSelection == "<None>"

SelectOptions(d) == IF d = <<>> THEN {NoSelection} ELSE KeySet(d)

\* The module-level LOCATIONS literal.
InitialLocations ==
    << [name |-> "113 Bridge",
        coordinates |-> <<431390, -893870>>,
        sub_locations |->
            << <<"B","e","l","o","w"," ","B","r","i","d","g","e">>,
               <<"A","b","o","v","e"," ","B","r","i","d","g","e">>,
               <<"P","o","o","l"," ","B","e","t","w","e","e","n"," ",
                 "B","r","i","d","g","e","s">> >>,
        parking |-> << <<431392, -893875>>, <<431388, -893862>> >>] >>

(***************************************************************************)
(* Parsing of the location form (the body of the try blocks).              *)
(***************************************************************************)
\* lat, lon = map(float, coords.split(",")): exactly two floats.
CoordsOk(coords) ==
    LET f == Split(coords, ",")
    IN  Len(f) = 2 /\ IsFloat(f[1]) /\ IsFloat(f[2])

ParseCoords(coords) ==
    LET f == Split(coords, ",") IN <<FloatValue(f[1]), FloatValue(f[2])>>

\* [s.strip() for s in subs.split(",") if s.strip()]
ParseSubs(subs) ==
    LET f == Split(subs, ",")
        g == SelectSeq(f, LAMBDA x : Strip(x) # <<>>)
    IN  [i \in 1..Len(g) |-> Strip(g[i])]

\* The lines of the parking text that contain a comma.
ParkLines(parks) == SelectSeq(SplitLines(parks), LAMBDA l : Contains(l, ","))

ParksOk(parks) ==
    \A i \in 1..Len(ParkLines(parks)) :
        LET f == Split(ParkLines(parks)[i], ",")
        IN  \A j \in 1..Len(f) : IsFloat(f[j])

\* [tuple(map(float, line.split(","))) for line in ... if "," in line]
ParseParks(parks) ==
    LET ls == ParkLines(parks)
    IN  [i \in 1..Len(ls) |->
            LET f == Split(ls[i], ",")
            IN  [j \in 1..Len(f) |-> FloatValue(f[j])]]

(***************************************************************************)
(* fetch_usgs_gage_height and the depth estimator.                         *)
(***************************************************************************)
FallbackGage == 80000

\* The exception the try body raises on a response, "none" if it completes:
\* requests.get, response.json(), then
\* data['value']['timeSeries'][0]['values'][0]['value'][0]['value'], float.
TryBody(resp) ==
    IF resp.status = "transport_error" THEN "ConnectionError"
    ELSE IF resp.status = "not_json" THEN "JSONDecodeError"
    ELSE LET data == resp.data IN
    IF "value" \notin DOMAIN data THEN "KeyError"
    ELSE IF "timeSeries" \notin DOMAIN data.value THEN "KeyError"
    ELSE LET ts == data.value.timeSeries IN
    IF Len(ts) < 1 THEN "IndexError"
    ELSE IF "values" \notin DOMAIN ts[1] THEN "KeyError"
    ELSE IF Len(ts[1].values) < 1 THEN "IndexError"
    ELSE IF "value" \notin DOMAIN ts[1].values[1] THEN "KeyError"
    ELSE IF Len(ts[1].values[1].value) < 1 THEN "IndexError"
    ELSE IF "value" \notin DOMAIN ts[1].values[1].value[1] THEN "KeyError"
    ELSE IF ~IsFloat(ts[1].values[1].value[1].value) THEN "ValueError"
    ELSE "none"

PathValue(data) == data.value.timeSeries[1].values[1].value[1].value

\* A handler that catches transport errors only.
ExceptClause_TransportOnly(exc) == exc = "ConnectionError"

\* except Exception: every exception the try body can raise is a subclass.
ExceptClause(exc) ==
    exc \in {"ConnectionError", "JSONDecodeError", "KeyError", "IndexError",
             "ValueError"}

\* The outcome of a call: the returned float, whether st.warning ran, and
\* the exception that escapes to the caller ("none" if the call returns).
fetch_usgs_gage_height(resp) ==
    LET exc == TryBody(resp)
    IN  IF exc = "none"
        THEN [value |-> FloatValue(PathValue(resp.data)), warned |-> FALSE,
              escaped |-> "none"]
        ELSE IF ExceptClause(exc)
        THEN [value |-> FallbackGage, warned |-> TRUE, escaped |-> "none"]
        ELSE [value |-> NoValue, warned |-> FALSE, escaped |-> exc]

\* round(x, 1): to the nearest tenth, ties to even.
RoundTenths(x) ==
    LET q == x \div 1000
        r == x % 1000
    IN  IF r < 500 THEN 1000 * q
        ELSE IF r > 500 THEN 1000 * (q + 1)
        ELSE IF q % 2 = 0 THEN 1000 * q ELSE 1000 * (q + 1)

\* The offset with the two moduli exchanged.
base_variation_Swapped(lat, lon) == 100 * ((lat % 30) + (lon % 70))

\* ((lat * 1000) % 7 + (lon * 1000) % 3) / 10.0 (Python's % takes the sign of
\* the divisor, as TLA+'s does for a positive divisor).
base_variation(lat, lon) == 100 * ((lat % 70) + (lon % 30))

\* The outcome of a call: the gage reading used, the estimate, whether the
\* fetch warned, and the exception that escapes ("none" if the call returns).
estimate_depth_from_combined_sources(lat, lon, resp) ==
    LET f == fetch_usgs_gage_height(resp)
    IN  IF f.escaped # "none"
        THEN [gage |-> NoValue, value |-> NoValue, warned |-> FALSE,
              escaped |-> f.escaped]
        ELSE [gage |-> f.value,
              value |-> RoundTenths(f.value + base_variation(lat, lon)),
              warned |-> f.warned, escaped |-> "none"]

(***************************************************************************)
(* Inputs of the runs.                                                     *)
(***************************************************************************)
\* What st_folium reports: no click, or the (lat, lng) of the last click.
NoClick == <<>>

Clicks == { <<431392, -893875>>, <<431401, -893868>> }

ReadingOk   == <<"3", ".", "4", "0">>
ReadingText == <<"I", "c", "e">>

Series(readings) ==
    [value |-> [timeSeries |-> << [values |-> << [value |-> readings] >>] >>]]

\* The upstream outcomes of one request to the USGS service.
Responses ==
    << [status |-> "transport_error", data |-> [error |-> TRUE]],
       [status |-> "not_json",        data |-> [error |-> TRUE]],
       [status |-> "json", data |-> [value |-> [queryInfo |-> <<>>]]],
       [status |-> "json", data |-> [value |-> [timeSeries |-> <<>>]]],
       [status |-> "json",
        data |-> [value |-> [timeSeries |-> << [name |-> <<>>] >>]]],
       [status |-> "json",
        data |-> [value |-> [timeSeries |-> << [values |-> <<>>] >>]]],
       [status |-> "json", data |-> Series(<<>>)],
       [status |-> "json", data |-> Series(<< [value |-> ReadingText] >>)],
       [status |-> "json", data |-> Series(<< [value |-> ReadingOk] >>)] >>

ResponseIds == 1..Len(Responses)

\* (start, end) of the two date widgets, as day numbers: an end after the
\* start and an end before the start.
DateRanges == { <<1, 2>>, <<2, 1>> }

Scores == {7}

NameInputs == {"113 Bridge", "Dam", "Pier"}

\* The names and texts used on the registry while a session is logged.
LogNames == {"113 Bridge"}

LogCoordTexts ==
    { <<"4","3",".","2",",","-","8","9",".","4">>, <<"4","3",".","2">> }

LogParkTexts == { <<>> }

\* "43.2,-89.4", "43.2,x", "43.2", "43.2,-89.4,1"
CoordTexts ==
    { <<"4","3",".","2",",","-","8","9",".","4">>,
      <<"4","3",".","2",",","x">>,
      <<"4","3",".","2">>,
      <<"4","3",".","2",",","-","8","9",".","4",",","1">> }

\* " Pool ,,Run"
SubTexts == { <<" ","P","o","o","l"," ",",",",","R","u","n">> }

\* "", "43.2, -89.4\nnote\n", "43.2,x"
ParkTexts ==
    { <<>>,
      <<"4","3",".","2",","," ","-","8","9",".","4","\n","n","o","t","e","\n">>,
      <<"4","3",".","2",",","x">> }

\* The form variable in a run that shows no location form.
NoForm ==
    [selected |-> "", name |-> "", coords |-> <<>>, subs |-> <<>>,
     parks |-> <<>>, before |-> <<>>]

(***************************************************************************)
(* Data model and initial state.                                           *)
(***************************************************************************)
\* Outing.__init__: the date widgets pass dates, so neither strptime branch
\* runs; every argument is stored as given and fish_caught starts empty.
Outing(location_name, start_time, end_time, success_score, notes) ==
    [location_name |-> location_name, start_time |-> start_time,
     end_time |-> end_time, success_score |-> success_score,
     notes |-> notes, fish_caught |-> <<>>]

\* fish_caught as one list shared by every Outing (a class attribute).
add_fish_Shared(h, id, fish_data) ==
    [i \in 1..Len(h) |->
        [h[i] EXCEPT !.fish_caught = Append(@, fish_data)]]

\* An add_fish that inserts at the front of the list.
add_fish_Front(h, id, fish_data) ==
    [h EXCEPT ![id].fish_caught = <<fish_data>> \o @]

\* Outing.add_fish on the object with the given id.
add_fish(h, id, fish_data) ==
    [h EXCEPT ![id].fish_caught = Append(@, fish_data)]

\* A history that puts the newest outing first.
history_append_Front(past, id) == <<id>> \o past

\* st.session_state['past_outings'].append(new_outing)
history_append(past, id) == Append(past, id)

RECURSIVE TotalCatches(_)
TotalCatches(h) ==
    IF h = <<>> THEN 0
    ELSE Len(h[Len(h)].fish_caught) + TotalCatches(SubSeq(h, 1, Len(h) - 1))

\* Identity of the dict object a new_fish_entry literal creates.
NewOid(h) == TotalCatches(h) + 1

Init ==
    /\ heap = <<>>
    /\ past_outings = <<>>
    /\ current_outing = None
    /\ LOCATIONS = InitialLocations
    /\ last_clicked_coords = NoClick
    /\ gage_depth = NoValue
    /\ estimated_depth = NoValue
    /\ menu = "Log a Catch"
    /\ button = ""
    /\ messages = {}
    /\ request = 0
    /\ form = NoForm

(***************************************************************************)
(* The "Log a Catch" page.                                                 *)
(***************************************************************************)
\* Lines 137-155: the map, and for a reported click the depth estimate.
MapOutcome(clicked, r) ==
    IF clicked = NoClick
    THEN [coords |-> last_clicked_coords, gage |-> NoValue,
          depth |-> NoValue, request |-> 0, form |-> FALSE, msgs |-> {}]
    ELSE LET e == estimate_depth_from_combined_sources(clicked[1], clicked[2],
                                                        Responses[r])
         IN  IF e.escaped # "none"
             THEN [coords |-> clicked, gage |-> NoValue, depth |-> NoValue,
                   request |-> r, form |-> FALSE, msgs |-> {"exception"}]
             ELSE [coords |-> clicked, gage |-> e.gage, depth |-> e.value,
                   request |-> r, form |-> TRUE,
                   msgs |-> (IF e.warned
                             THEN {"warning: Could not fetch gage height"}
                             ELSE {})
                            \cup {"success: Catch location set",
                                  "info: Estimated Water Depth"}]

MapPart(m) ==
    /\ last_clicked_coords' = m.coords
    /\ gage_depth' = m.gage
    /\ estimated_depth' = m.depth
    /\ request' = m.request

\* A run of the page with no button pressed and a click on the map.
MapClick(clicked, r) ==
    \E m \in {MapOutcome(clicked, r)} :
        /\ clicked # NoClick
        /\ menu' = "Log a Catch"
        /\ button' = ""
        /\ MapPart(m)
        /\ messages' = m.msgs
        /\ form' = NoForm
        /\ UNCHANGED <<heap, past_outings, current_outing, LOCATIONS>>

\* The "Begin Outing" button (lines 113-123), then the rest of the page.
BeginOuting(location, start, end, score, notes, clicked, r) ==
    \E m \in {MapOutcome(clicked, r)}, id \in {Len(heap) + 1} :
        /\ Len(heap) < MaxOutings
        /\ location \in SelectOptions(LOCATIONS)
        /\ menu' = "Log a Catch"
        /\ button' = "Begin Outing"
        /\ heap' = Append(heap, Outing(location, start, end, score, notes))
        /\ current_outing' = id
        /\ past_outings' = history_append(past_outings, id)
        /\ MapPart(m)
        /\ messages' = {"success: New outing started!"} \cup m.msgs
        /\ form' = NoForm
        /\ UNCHANGED LOCATIONS

\* The dict built at lines 174-191 (the fields the log views use).
new_fish_entry(oid, loc_name, lat, lon, fish_type) ==
    [oid |-> oid, loc_name |-> loc_name, lat |-> lat, lon |-> lon,
     fish_type |-> fish_type]

\* The "Log This Fish" submit (lines 157-193); the form exists only in a run
\* whose map reports a click and whose estimate returned.
LogFish(clicked, r, loc_name, fish_type) ==
    \E m \in {MapOutcome(clicked, r)},
       entry \in {new_fish_entry(NewOid(heap), loc_name, clicked[1],
                                 clicked[2], fish_type)} :
        /\ clicked # NoClick
        /\ m.form
        /\ loc_name \in SelectOptions(LOCATIONS)
        /\ current_outing # None => TotalCatches(heap) < MaxCatches
        /\ menu' = "Log a Catch"
        /\ button' = "Log This Fish"
        /\ MapPart(m)
        /\ IF current_outing # None
           THEN /\ heap' = add_fish(heap, current_outing, entry)
                /\ messages' = m.msgs \cup {"success: Fish entry logged!"}
           ELSE /\ heap' = heap
                /\ messages' = m.msgs
        /\ form' = NoForm
        /\ UNCHANGED <<past_outings, current_outing, LOCATIONS>>

(***************************************************************************)
(* The other pages.                                                        *)
(***************************************************************************)
NoEstimate ==
    gage_depth' = NoValue /\ estimated_depth' = NoValue /\ request' = 0

\* The widgets of the location form, and the registry the run started with.
LocationForm(selected, name, coords, subs, parks) ==
    [selected |-> selected, name |-> name, coords |-> coords, subs |-> subs,
     parks |-> parks, before |-> LOCATIONS]

\* "View Catch Log" (lines 195-219): reads the history, changes nothing.
ViewCatchLog ==
    /\ menu' = "View Catch Log"
    /\ button' = ""
    /\ messages' =
         IF past_outings = <<>>
         THEN {"info: No outings have been saved yet."}
         ELSE IF \E i \in 1..Len(past_outings) :
                    heap[past_outings[i]].fish_caught = <<>>
         THEN {"info: No fish recorded for this outing."}
         ELSE {}
    /\ NoEstimate
    /\ form' = NoForm
    /\ UNCHANGED <<heap, past_outings, current_outing, LOCATIONS,
                   last_clicked_coords>>

\* A settings page that also clears the active outing.
Settings_Reset ==
    /\ menu' = "Settings"
    /\ button' = ""
    /\ messages' = {"success: Settings saved"}
    /\ NoEstimate
    /\ form' = NoForm
    /\ current_outing' = None
    /\ UNCHANGED <<heap, past_outings, LOCATIONS, last_clicked_coords>>

\* "Settings" (lines 274-281).
Settings ==
    /\ menu' = "Settings"
    /\ button' = ""
    /\ messages' = {"success: Settings saved"}
    /\ NoEstimate
    /\ form' = NoForm
    /\ UNCHANGED <<heap, past_outings, current_outing, LOCATIONS,
                   last_clicked_coords>>

\* An update that removes the old entry before it parses the texts.
UpdateTry_PopFirst(d, selected, new_name, coords, subs, parks) ==
    IF ~CoordsOk(coords)
    THEN [locations |-> DictPop(d, selected), exc |-> "ValueError"]
    ELSE IF ~ParksOk(parks)
    THEN [locations |-> DictPop(d, selected), exc |-> "ValueError"]
    ELSE [locations |->
            DictSet(DictPop(d, selected), new_name,
                    [coordinates |-> ParseCoords(coords),
                     sub_locations |-> ParseSubs(subs),
                     parking |-> ParseParks(parks)]),
          exc |-> "none"]

\* The try block of "Update Location" (lines 236-245): the registry after
\* it and the exception it raised.
UpdateTry(d, selected, new_name, coords, subs, parks) ==
    IF ~CoordsOk(coords) THEN [locations |-> d, exc |-> "ValueError"]
    ELSE IF ~ParksOk(parks) THEN [locations |-> d, exc |-> "ValueError"]
    ELSE [locations |->
            DictSet(DictPop(d, selected), new_name,
                    [coordinates |-> ParseCoords(coords),
                     sub_locations |-> ParseSubs(subs),
                     parking |-> ParseParks(parks)]),
          exc |-> "none"]

UpdateLocation(selected, new_name, coords, subs, parks) ==
    \E r \in {UpdateTry(LOCATIONS, selected, new_name, coords, subs, parks)} :
        /\ selected \in KeySet(LOCATIONS)
        /\ selected # "Add New"
        /\ menu' = "Manage Locations"
        /\ button' = "Update Location"
        /\ LOCATIONS' = r.locations
        /\ messages' = IF r.exc = "none"
                       THEN {"success: Updated location"}
                       ELSE {"error: Error updating location"}
        /\ form' = LocationForm(selected, new_name, coords, subs, parks)
        /\ NoEstimate
        /\ UNCHANGED <<heap, past_outings, current_outing,
                       last_clicked_coords>>

\* "Delete Location" (lines 250-252).
DeleteLocation(selected) ==
    /\ selected \in KeySet(LOCATIONS)
    /\ selected # "Add New"
    /\ menu' = "Manage Locations"
    /\ button' = "Delete Location"
    /\ LOCATIONS' = DictPop(LOCATIONS, selected)
    /\ messages' = {"success: Deleted location"}
    /\ form' = LocationForm(selected, selected, <<>>, <<>>, <<>>)
    /\ NoEstimate
    /\ UNCHANGED <<heap, past_outings, current_outing, last_clicked_coords>>

\* The try block of "Add Location" (lines 261-269).
AddTry(d, name, coords, subs, parks) ==
    IF ~CoordsOk(coords) THEN [locations |-> d, exc |-> "ValueError"]
    ELSE IF ~ParksOk(parks) THEN [locations |-> d, exc |-> "ValueError"]
    ELSE [locations |->
            DictSet(d, name,
                    [coordinates |-> ParseCoords(coords),
                     sub_locations |-> ParseSubs(subs),
                     parking |-> ParseParks(parks)]),
          exc |-> "none"]

AddLocation(name, coords, subs, parks) ==
    \E r \in {AddTry(LOCATIONS, name, coords, subs, parks)} :
        /\ menu' = "Manage Locations"
        /\ button' = "Add Location"
        /\ LOCATIONS' = r.locations
        /\ messages' = IF r.exc = "none"
                       THEN {"success: Added location"}
                       ELSE {"error: Error adding location"}
        /\ form' = LocationForm("Add New", name, coords, subs, parks)
        /\ NoEstimate
        /\ UNCHANGED <<heap, past_outings, current_outing,
                       last_clicked_coords>>

\* The session: the "Log a Catch", "View Catch Log" and "Settings" pages,
\* and updates and additions on the one name of the initial registry.
Next ==
    \/ \E c \in Clicks, r \in ResponseIds : MapClick(c, r)
    \/ \E l \in LogNames, d \in DateRanges, sc \in Scores,
          c \in Clicks \cup {NoClick}, r \in ResponseIds :
          BeginOuting(l, d[1], d[2], sc, <<>>, c, r)
    \/ \E c \in Clicks, r \in ResponseIds, l \in LogNames :
          LogFish(c, r, l, "Channel Catfish")
    \/ ViewCatchLog
    \/ Settings
    \/ \E sel \in LogNames, n \in LogNames, c \in LogCoordTexts,
          sb \in SubTexts, p \in LogParkTexts :
          UpdateLocation(sel, n, c, sb, p)
    \/ \E n \in LogNames, c \in LogCoordTexts, sb \in SubTexts,
          p \in LogParkTexts :
          AddLocation(n, c, sb, p)

Spec == Init /\ [][Next]_vars

\* The "Manage Locations" page on its own, with every name and text.
NextLocations ==
    \/ \E sel \in NameInputs, n \in NameInputs, c \in CoordTexts,
          sb \in SubTexts, p \in ParkTexts :
          UpdateLocation(sel, n, c, sb, p)
    \/ \E sel \in NameInputs : DeleteLocation(sel)
    \/ \E n \in NameInputs, c \in CoordTexts, sb \in SubTexts,
          p \in ParkTexts :
          AddLocation(n, c, sb, p)

SpecLocations == Init /\ [][NextLocations]_vars

(***************************************************************************)
(* Properties.                                                             *)
(***************************************************************************)
\* What a run can show for a failure: st.error, or an uncaught exception.
ErrorMessages ==
    {"exception", "error: Error updating location",
     "error: Error adding location"}

FetchWarning == "warning: Could not fetch gage height"

Range(f) == {f[i] : i \in 1..Len(f)}

IsPrefix(a, b) == Len(a) <= Len(b) /\ SubSeq(b, 1, Len(a)) = a

\* The object ids of the entries in the list of outing i.
Oids(h, i) == {h[i].fish_caught[j].oid : j \in 1..Len(h[i].fish_caught)}

\* C1: a "Log This Fish" submit with no active outing reports an error; with
\* an active outing it adds exactly one entry to that outing's list.
C1_AppendNeedsActiveOuting ==
    [][button' = "Log This Fish" =>
         IF current_outing = None
         THEN messages' \cap ErrorMessages # {}
         ELSE Len(heap'[current_outing].fish_caught)
                = Len(heap[current_outing].fish_caught) + 1]_vars

\* C2: no outing whose end date lies before its start date is ever created:
\* such a begin is rejected and leaves history and current outing alone.
C2_NoOutingEndsBeforeStart ==
    \A i \in 1..Len(heap) : heap[i].end_time >= heap[i].start_time

\* C3: the history lists the outings in the order they were begun, one per
\* begin, and the current outing is none exactly when the history is empty
\* and otherwise its last element.
C3_HistoryOrderAndCurrent ==
    /\ past_outings = [i \in 1..Len(heap) |-> i]
    /\ current_outing =
         IF past_outings = <<>> THEN None
         ELSE past_outings[Len(past_outings)]

C3_Witness ==
    /\ Len(past_outings) = 2
    /\ current_outing = 2
    /\ heap[1].fish_caught # <<>>

\* C4: in every step each outing's fish_caught list is extended only at its
\* end (the old list is a prefix of the new one) and no outing leaves the
\* history.
C4_AppendOnly ==
    [][/\ Len(heap') >= Len(heap)
       /\ \A i \in 1..Len(heap) :
            IsPrefix(heap[i].fish_caught, heap'[i].fish_caught)
       /\ IsPrefix(past_outings, past_outings')]_vars

C4_Witness ==
    \E i \in 1..Len(heap) :
        Len(heap[i].fish_caught) = 2 /\ i \in Range(past_outings)

\* C5: the session starts with no current outing; the current outing changes
\* only in a "Begin Outing" run, to the outing created there, and is never
\* set back to none.
C5_CurrentChangesOnlyOnBegin ==
    /\ current_outing = None
    /\ [][/\ current_outing' # current_outing =>
               /\ button' = "Begin Outing"
               /\ Len(heap') = Len(heap) + 1
               /\ current_outing' = Len(heap')
          /\ current_outing # None => current_outing' # None]_vars

C5_Witness ==
    /\ current_outing = 2
    /\ menu \in {"Manage Locations", "Settings", "View Catch Log"}
    /\ heap[1].fish_caught # <<>>

\* The responses on which the request or the reading fails: all but the last.
FailingResponses == 1..(Len(Responses) - 1)

\* The reading "3.40" of the last response.
GoodReading == 34 * 1000

\* C6: in a run that calls fetch_usgs_gage_height no exception escapes; on
\* every failing response the run shows the warning and uses 8.0, and on the
\* good response it uses the reading, without a warning.
C6_FetchFallsBack ==
    request # 0 =>
        /\ "exception" \notin messages
        /\ gage_depth >= 0
        /\ IF request \in FailingResponses
           THEN FetchWarning \in messages /\ gage_depth = FallbackGage
           ELSE FetchWarning \notin messages /\ gage_depth = GoodReading

C6_Witness ==
    /\ request = Len(Responses) - 1
    /\ FetchWarning \in messages
    /\ gage_depth = FallbackGage

\* The offset of the contract, ((lat*1000 mod 7) + (lon*1000 mod 3)) / 10.
ContractOffset(c) == 100 * ((c[1] % 70) + (c[2] % 30))

Distance(a, b) == IF a >= b THEN a - b ELSE b - a

\* C7: the estimate is the gage reading plus the contract's offset, rounded
\* to one decimal; two consecutive estimates for the same coordinates and
\* the same reading are equal; a run that only estimates leaves outings,
\* history and registry unchanged.
C7_EstimateDeterministic ==
    /\ [](request # 0 =>
            /\ estimated_depth % 1000 = 0
            /\ Distance(estimated_depth,
                        gage_depth + ContractOffset(last_clicked_coords))
                 <= 500)
    /\ [][/\ (/\ request # 0
              /\ request' # 0
              /\ last_clicked_coords' = last_clicked_coords
              /\ gage_depth' = gage_depth)
             => estimated_depth' = estimated_depth
          /\ (menu' = "Log a Catch" /\ button' = "")
             => UNCHANGED <<heap, past_outings, current_outing, LOCATIONS>>
         ]_vars

C7_Witness ==
    /\ request = Len(Responses)
    /\ button = ""
    /\ last_clicked_coords = <<431401, -893868>>
    /\ estimated_depth = 41000
    /\ TotalCatches(heap) = 2

\* The values of the texts "43.2,-89.4" and "43.2, -89.4\nnote\n".
ExpectedCoords == <<432000, -894000>>

ExpectedParking(parks) ==
    IF parks = <<>> THEN <<>> ELSE << <<432000, -894000>> >>

Lookup(d, k) == CHOOSE e \in Range(d) : e.name = k

Updated == button = "Update Location" /\ "success: Updated location" \in messages

\* C8: names are unique in the registry; after a successful update the new
\* name holds the new fields, the old name is gone unless it is the new
\* name, and the registry has one entry fewer exactly when the new name
\* differs from the old one and was the name of another entry.
C8_UpdateRenames ==
    /\ Cardinality(KeySet(LOCATIONS)) = Len(LOCATIONS)
    /\ Updated =>
         LET collides == /\ form.name # form.selected
                         /\ form.name \in KeySet(form.before)
         IN  /\ form.name \in KeySet(LOCATIONS)
             /\ Lookup(LOCATIONS, form.name).coordinates = ExpectedCoords
             /\ Lookup(LOCATIONS, form.name).parking
                  = ExpectedParking(form.parks)
             /\ form.name # form.selected
                  => form.selected \notin KeySet(LOCATIONS)
             /\ Len(LOCATIONS)
                  = IF collides THEN Len(form.before) - 1
                    ELSE Len(form.before)

C8_Witness ==
    /\ Updated
    /\ form.name # form.selected
    /\ form.name \in KeySet(form.before)
    /\ Len(form.before) = 3
    /\ Lookup(form.before, form.name).parking
         # Lookup(LOCATIONS, form.name).parking

\* C9: a successful catch append extends the current outing's list by one
\* entry and changes no other outing, nor the history, the current outing
\* or the registry; no entry is in the lists of two outings.
C9_AppendFrame ==
    /\ [](\A i, j \in 1..Len(heap) :
            i # j => Oids(heap, i) \cap Oids(heap, j) = {})
    /\ [][("success: Fish entry logged!" \in messages'
           /\ button' = "Log This Fish") =>
            /\ past_outings' = past_outings
            /\ current_outing' = current_outing
            /\ LOCATIONS' = LOCATIONS
            /\ Len(heap') = Len(heap)
            /\ \A i \in 1..Len(heap) :
                 IF i = current_outing
                 THEN /\ Len(heap'[i].fish_caught)
                           = Len(heap[i].fish_caught) + 1
                      /\ IsPrefix(heap[i].fish_caught, heap'[i].fish_caught)
                      /\ [heap'[i] EXCEPT !.fish_caught = <<>>]
                           = [heap[i] EXCEPT !.fish_caught = <<>>]
                 ELSE heap'[i] = heap[i]]_vars

C9_Witness ==
    /\ Len(heap) = 2
    /\ heap[1].fish_caught # <<>>
    /\ heap[2].fish_caught # <<>>
    /\ button = "Log This Fish"

\* The texts of the inputs that do not parse.
BadCoordTexts ==
    { <<"4","3",".","2",",","x">>,
      <<"4","3",".","2">>,
      <<"4","3",".","2",",","-","8","9",".","4",",","1">> }

BadParkTexts == { <<"4","3",".","2",",","x">> }

\* C10: when the coordinates text or a parking line of an update or an add
\* does not parse, the run shows an error and the registry is the one the
\* run started with.
C10_ParseFailureKeepsRegistry ==
    (/\ button \in {"Update Location", "Add Location"}
     /\ (form.coords \in BadCoordTexts \/ form.parks \in BadParkTexts))
    => /\ messages \cap ErrorMessages # {}
       /\ LOCATIONS = form.before

C10_Witness ==
    /\ button = "Update Location"
    /\ form.coords \notin BadCoordTexts
    /\ form.parks \in BadParkTexts
    /\ "error: Error updating location" \in messages
    /\ Len(LOCATIONS) = 3

====
